---- MODULE Spec2Model ----
(***************************************************************************)
(* Model of the investment banking RAG bot: the embedding client           *)
(* (embeddings.py), the response generator (llm.py), the process-wide      *)
(* configuration (config.py) and the orchestrator (rag_engine.py).         *)
(*                                                                         *)
(* Conventions                                                             *)
(*  - A Python call that may raise is an outcome record: Return(v) or      *)
(*    Raise.  try/except is a test of the .raised field.                   *)
(*  - Floats are integers in a fixed unit: embedding components in units   *)
(*    of 1e-5, similarity scores and the threshold in units of 0.05.       *)
(*  - A text is [chars, provider]: its length in characters and what the   *)
(*    embedding provider does when it is sent that text.                   *)
(*  - `last` is the record of the most recent call on the public API: its  *)
(*    arguments, what its collaborators answered, which collaborators it   *)
(*    invoked, and what it returned.                                       *)
(***************************************************************************)
EXTENDS Integers, Sequences, FiniteSets, TLC

VARIABLES
    processed_files,       \* RAGEngine.processed_files (set of basenames)
    similarity_threshold,  \* config.similarity_threshold, units of 0.05
    retrieval_top_k,       \* config.retrieval_top_k
    last,                  \* record of the most recent API call
    doc,                   \* history: per filename, how its latest ingest ended
    upsertOk,              \* history: filenames whose upsert reported success
    returnedTrue,          \* history: filenames for which an ingest returned True
    inflight               \* per caller, where its running process_pdf call is

vars == <<processed_files, similarity_threshold, retrieval_top_k, last, doc,
          upsertOk, returnedTrue, inflight>>

----------------------------------------------------------------------------
(* Bounds of the model *)

MaxTexts == 3        \* longest list handed to embed_batch directly
MaxBatchSize == 2    \* largest batch_size tried besides the default
MaxChunks == 2       \* most chunks one extraction yields
MaxResults == 3      \* most matches one index query yields

(* Program constants *)

EMBED_DIM == 768            \* embeddings.py:65, rag_engine.py:27
MaxTextChars == 25000       \* embeddings.py:43
Epsilon == 1                \* 1e-5, embeddings.py:58 and :66
DefaultBatchSize == 5       \* embeddings.py:69
DefaultTopK == 5            \* config.py:37
DefaultThreshold == 15      \* 0.75, config.py:38

----------------------------------------------------------------------------
(* Outcomes of calls that may raise *)

Return(v) == [raised |-> FALSE, value |-> v]
Raise == [raised |-> TRUE, value |-> <<>>]

Min(a, b) == IF a < b THEN a ELSE b

\* Python's s[i:j] for 0 <= i <= j, on a 1-based sequence.
Slice(s, i, j) == SubSeq(s, i + 1, Min(j, Len(s)))

----------------------------------------------------------------------------
(* Embedding client: embeddings.py *)

(* A vector is kept by its dimension and its non-zero support: dim is the  *)
(* length of the Python list and nz maps the 1-based positions that were   *)
(* written to their values; every other component is 0.                    *)
Dim(v) == v.dim
At(v, i) == IF i \in DOMAIN v.nz THEN v.nz[i] ELSE 0

\* [0.0] * n
Zeros(n) == [dim |-> n, nz |-> <<>>]

\* v[i] = x, i 0-based; IndexError outside the list is not modelled: the
\* callers below write position 0 of lists of EMBED_DIM components.
SetAt(v, i, x) == [v EXCEPT !.nz = ((i + 1) :> x) @@ v.nz]

TextLens == {1, MaxTextChars + 1}
ProviderOutcomes == {"fail", "zero", "vec"}
Texts == [chars : TextLens, provider : ProviderOutcomes]

\* text[:25000] when the text is longer than 25000 characters.
Truncate(chars) == IF chars > MaxTextChars THEN MaxTextChars ELSE chars

\* genai.embed_content: a D-dimensional vector (possibly all zeros) or an error.
embed_content(chars, provider) ==
    CASE provider = "fail" -> Raise
      [] provider = "zero" -> Return([embedding |-> Zeros(EMBED_DIM)])
      [] OTHER             -> Return([embedding |-> SetAt(Zeros(EMBED_DIM), EMBED_DIM - 1, 3)])

\* all(v == 0 for v in embedding)
AllZero(embedding) == \A i \in DOMAIN embedding.nz : embedding.nz[i] = 0

\* if all(v == 0 ...): embedding[0] = 1e-5
PerturbIfZero(embedding) ==
    IF AllZero(embedding) THEN SetAt(embedding, 0, Epsilon) ELSE embedding

\* Variant: the fallback is left all-zero.
FallbackNoEpsilon == Zeros(EMBED_DIM)

\* fallback_embedding = [0.0] * 768; fallback_embedding[0] = 1e-5
FallbackEmbedding == SetAt(Zeros(EMBED_DIM), 0, Epsilon)

embed_text(text) ==
    LET result == embed_content(Truncate(text.chars), text.provider)
    IN  IF result.raised
        THEN Return(FallbackEmbedding)
        ELSE Return(PerturbIfZero(result.value.embedding))

\* for text_item in batch: batch_embeddings.append(self.embed_text(text_item))
RECURSIVE EmbedEach(_)
EmbedEach(batch) ==
    IF batch = <<>> THEN Return(<<>>)
    ELSE LET e == embed_text(Head(batch))
             rest == EmbedEach(Tail(batch))
         IN  IF e.raised \/ rest.raised THEN Raise
             ELSE Return(<<e.value>> \o rest.value)

\* Variant: the slice stops one element early.
BatchOffByOne(texts, i, batch_size) == Slice(texts, i, i + batch_size - 1)

\* batch = texts[i:i+batch_size]
Batch(texts, i, batch_size) == Slice(texts, i, i + batch_size)

\* for i in range(0, len(texts), batch_size): ... results.extend(batch_embeddings)
\* (the time.sleep between batches changes no state and is left out)
RECURSIVE BatchLoop(_, _, _, _)
BatchLoop(texts, batch_size, i, results) ==
    IF i >= Len(texts) THEN Return(results)
    ELSE LET be == EmbedEach(Batch(texts, i, batch_size))
         IN  IF be.raised THEN Raise
             ELSE BatchLoop(texts, batch_size, i + batch_size, results \o be.value)

embed_batch(texts, batch_size) == BatchLoop(texts, batch_size, 0, <<>>)

----------------------------------------------------------------------------
(* Response generator: llm.py *)

GenerationApology ==
    "I'm sorry, I encountered an error while generating a response. Please try again."

\* self.model.generate_content(prompt).text: the model's text, or an error.
generate_content(prompt, outcome) ==
    IF outcome = "fail" THEN Raise ELSE Return("answer to " \o prompt)

\* if context: rag prompt, else standard prompt (None and "" are both falsy).
CreatePrompt(context) == IF context # <<>> THEN "rag prompt" ELSE "standard prompt"

\* Variant: no except clause, a generation error reaches the caller.
GenerateReraise(context, outcome) == generate_content(CreatePrompt(context), outcome)

\* try: ... return response.text / except: return the apology
generate_response(context, outcome) ==
    LET response == generate_content(CreatePrompt(context), outcome)
    IN  IF response.raised THEN Return(GenerationApology) ELSE Return(response.value)

----------------------------------------------------------------------------
(* Collaborators whose code is outside src/: PDF processor and vector store *)

\* Chunks are at most chunk_size (500) characters long, so never truncated.
ChunkTexts == [chars : {1}, provider : {"vec", "fail"}]

RECURSIVE SeqsUpTo(_, _)
SeqsUpTo(S, n) ==
    IF n = 0 THEN {<<>>}
    ELSE LET shorter == SeqsUpTo(S, n - 1)
         IN  shorter \cup {Append(s, x) : s \in shorter, x \in S}

\* PDFProcessor.process_pdf: a list of chunk dicts (empty when the document
\* has no text), or an error.
ExtractionOutcomes ==
    {Raise} \cup {Return([i \in 1..Len(ts) |-> [text |-> ts[i]]]) :
                    ts \in SeqsUpTo(ChunkTexts, MaxChunks)}

\* VectorStore.upsert_items: success flag, or an error.
UpsertOutcomes == {Raise, Return(TRUE), Return(FALSE)}

Scores == {12, 15, 16, 18}

Match(score) == [source |-> "x.pdf", text |-> "passage", score |-> score]

IsDescending(s) == \A i \in 1..(Len(s) - 1) : s[i].score >= s[i + 1].score

\* The ranked match lists the index can answer with.
RankedLists ==
    {s \in SeqsUpTo({Match(x) : x \in Scores}, MaxResults) : IsDescending(s)}

\* VectorStore.query: at most top_k matches by descending score, or an error.
QueryOutcomes(top_k) ==
    {Raise} \cup {Return(rs) : rs \in {s \in RankedLists : Len(s) <= top_k}}

\* What the index client does with one query: with the index reachable it
\* gives its outcome; with the index unreachable it gives zero results.
IndexAnswers(top_k) ==
    {[index |-> "available", found |-> found] : found \in QueryOutcomes(top_k)}
        \cup {[index |-> "unavailable", found |-> Return(<<>>)]}

\* GenerativeModel.generate_content: text, or an error.
GenerationOutcomes == {"ok", "fail"}

\* config.pinecone_namespace (its default)
Namespace == "investment-banking"

VectorStats ==
    [namespaces |-> (Namespace :> [vector_count |-> 4]), index_fullness |-> 1]

\* VectorStore.get_stats: the index statistics, possibly without the
\* namespace, or an error.
StatsOutcomes == {Raise, Return([index_fullness |-> 0]), Return(VectorStats)}

----------------------------------------------------------------------------
(* Orchestrator: rag_engine.py *)

Paths == {<<"a", "x.pdf">>, <<"b", "x.pdf">>, <<"a", "y.pdf">>}

\* os.path.basename
basename(path) == path[2]

Names == {basename(p) : p \in Paths}

\* Variant: the existence check is skipped.
FileNeverMissing(exists) == FALSE

\* if not os.path.exists(pdf_path)
FileMissing(exists) == ~exists

\* Variant: the registry is not consulted.
NeverProcessed(files, filename) == FALSE

\* if filename in self.processed_files
AlreadyProcessed(files, filename) == filename \in files

\* for i, embedding in enumerate(embeddings): chunks[i]["embedding"] = ...;
\* chunks[i]["id"] = f"{filename}_{i}".  IndexError when there are more
\* embeddings than chunks.
AttachEmbeddings(chunks, embeddings, filename) ==
    IF Len(embeddings) > Len(chunks) THEN Raise
    ELSE Return([i \in 1..Len(chunks) |->
                   IF i <= Len(embeddings)
                   THEN [text |-> chunks[i].text, embedding |-> embeddings[i],
                         id |-> <<filename, i - 1>>]
                   ELSE chunks[i]])

\* Variant: the filename is added whatever the upsert said.
RegistryAddAlways(files, filename, success) == files \cup {filename}

\* if success: self.processed_files.add(filename)
RegistryAfterUpsert(files, filename, success) ==
    IF success THEN files \cup {filename} ELSE files

(* A call that consults collaborators is the set of its possible runs: at *)
(* each collaborator call the run branches over that call's outcomes.      *)

\* What one run of process_pdf did: whether it raised, what it returned,
\* the registry it left, which collaborators it invoked with what, and what
\* they answered.
Run(raised, ret, files, filename, stage, calls) ==
    [raised |-> raised, ret |-> ret, files |-> files, filename |-> filename,
     stage |-> stage, extractCalls |-> calls.extract, nChunks |-> calls.chunks,
     embedCalls |-> calls.embed, upsertCalls |-> calls.upsert,
     upserted |-> calls.upserted, upsertSaid |-> calls.said]

NoCalls == [extract |-> 0, chunks |-> 0, embed |-> 0, upsert |-> 0,
            upserted |-> <<>>, said |-> "not called"]

ItemIds(items) ==
    [i \in 1..Len(items) |-> IF "id" \in DOMAIN items[i] THEN items[i].id ELSE <<>>]

\* Variant: adding a filename the registry already holds is an error.
StoreRejectsDuplicate(files, filename, calls, upsert) ==
    IF upsert.raised \/ (upsert.value /\ filename \in files)
    THEN Run(TRUE, FALSE, files, filename, "upsert_raised",
             [calls EXCEPT !.said = IF upsert.raised THEN "raised" ELSE "success"])
    ELSE IF upsert.value
    THEN Run(FALSE, TRUE, RegistryAfterUpsert(files, filename, TRUE), filename,
             "stored", [calls EXCEPT !.said = "success"])
    ELSE Run(FALSE, FALSE, RegistryAfterUpsert(files, filename, FALSE), filename,
             "upsert_failed", [calls EXCEPT !.said = "failure"])

\* success = self.vector_store.upsert_items(chunks); if success: ... else: ...
Store(files, filename, calls, upsert) ==
    IF upsert.raised
    THEN Run(TRUE, FALSE, files, filename, "upsert_raised",
             [calls EXCEPT !.said = "raised"])
    ELSE IF upsert.value
    THEN Run(FALSE, TRUE, RegistryAfterUpsert(files, filename, TRUE), filename,
             "stored", [calls EXCEPT !.said = "success"])
    ELSE Run(FALSE, FALSE, RegistryAfterUpsert(files, filename, FALSE), filename,
             "upsert_failed", [calls EXCEPT !.said = "failure"])

\* texts = [...]; embeddings = embed_batch(texts); attach; upsert_items(chunks)
EmbedAndStore(files, filename, chunks, calls) ==
    LET texts == [i \in 1..Len(chunks) |-> chunks[i].text]
        embeddings == embed_batch(texts, DefaultBatchSize)
        items == AttachEmbeddings(chunks, embeddings.value, filename)
        c2 == [calls EXCEPT !.embed = Len(embeddings.value)]
        c3 == [c2 EXCEPT !.upsert = 1, !.upserted = ItemIds(items.value)]
    IN  IF embeddings.raised
        THEN {Run(TRUE, FALSE, files, filename, "embed_raised", calls)}
        ELSE IF items.raised
        THEN {Run(TRUE, FALSE, files, filename, "attach_raised", c2)}
        ELSE {Store(files, filename, c3, upsert) : upsert \in UpsertOutcomes}

\* chunks = self.pdf_processor.process_pdf(pdf_path); if not chunks: return False
Extract(files, pdf_path, filename, extraction) ==
    LET c1 == [NoCalls EXCEPT !.extract = 1]
        chunks == extraction.value
    IN  IF extraction.raised
        THEN {Run(TRUE, FALSE, files, filename, "extract_raised", c1)}
        ELSE IF chunks = <<>>
        THEN {Run(FALSE, FALSE, files, filename, "empty", c1)}
        ELSE EmbedAndStore(files, filename, chunks, [c1 EXCEPT !.chunks = Len(chunks)])

\* The body of the try block of process_pdf.
process_pdf_try(files, pdf_path, exists) ==
    LET filename == basename(pdf_path)
    IN  IF FileMissing(exists)
        THEN {Run(FALSE, FALSE, files, filename, "missing", NoCalls)}
        ELSE IF AlreadyProcessed(files, filename)
        THEN {Run(FALSE, TRUE, files, filename, "already", NoCalls)}
        ELSE UNION {Extract(files, pdf_path, filename, extraction) :
                      extraction \in ExtractionOutcomes}

\* Variant: no except clause, the exception reaches the caller.
ExceptReraise(run) == run

\* Variant: the except clause also records the filename as handled.
ExceptMarksFile(run) ==
    IF run.raised
    THEN [run EXCEPT !.raised = FALSE, !.ret = FALSE, !.files = @ \cup {run.filename}]
    ELSE run

\* except Exception as e: print(...); return False
ExceptReturnFalse(run) ==
    IF run.raised THEN [run EXCEPT !.raised = FALSE, !.ret = FALSE] ELSE run

process_pdf(files, pdf_path, exists) ==
    {ExceptReturnFalse(run) : run \in process_pdf_try(files, pdf_path, exists)}

----------------------------------------------------------------------------
(* process_pdf as the steps of one caller among several on one engine.    *)
(* The steps are cut where the code reads or writes self.processed_files  *)
(* and where it waits for the index; extraction, embedding and attaching  *)
(* touch nothing shared and are one step.                                  *)

\* The callers that may run process_pdf on the same engine at once.
Callers == {"caller1", "caller2"}

Idle == [pc |-> "idle"]

\* A call that has returned: what it returned and what it did.
Returned(run) ==
    [pc |-> "done", filename |-> run.filename, ret |-> run.ret,
     raised |-> run.raised, stage |-> run.stage, embedCalls |-> run.embedCalls,
     upsertCalls |-> run.upsertCalls, upsertSaid |-> run.upsertSaid]

\* if not os.path.exists(pdf_path): return False
Entered(files, pdf_path, exists) ==
    IF FileMissing(exists)
    THEN Returned(ExceptReturnFalse(
             Run(FALSE, FALSE, files, basename(pdf_path), "missing", NoCalls)))
    ELSE [pc |-> "check", pdf_path |-> pdf_path]

\* filename = os.path.basename(pdf_path); if filename in self.processed_files
Checked(files, pdf_path) ==
    LET filename == basename(pdf_path)
    IN  IF AlreadyProcessed(files, filename)
        THEN Returned(ExceptReturnFalse(
                 Run(FALSE, TRUE, files, filename, "already", NoCalls)))
        ELSE [pc |-> "prepare", pdf_path |-> pdf_path, filename |-> filename]

\* chunks = process_pdf(pdf_path); if not chunks: return False; texts = ...;
\* embeddings = embed_batch(texts); attach embedding and id to each chunk
Prepared(files, pdf_path, filename, extraction) ==
    LET c1 == [NoCalls EXCEPT !.extract = 1]
        chunks == extraction.value
        texts == [i \in 1..Len(chunks) |-> chunks[i].text]
        embeddings == embed_batch(texts, DefaultBatchSize)
        items == AttachEmbeddings(chunks, embeddings.value, filename)
        c2 == [c1 EXCEPT !.chunks = Len(chunks)]
        c3 == [c2 EXCEPT !.embed = Len(embeddings.value)]
        c4 == [c3 EXCEPT !.upsert = 1, !.upserted = ItemIds(items.value)]
        early(run) == Returned(ExceptReturnFalse(run))
    IN  IF extraction.raised
        THEN early(Run(TRUE, FALSE, files, filename, "extract_raised", c1))
        ELSE IF chunks = <<>>
        THEN early(Run(FALSE, FALSE, files, filename, "empty", c1))
        ELSE IF embeddings.raised
        THEN early(Run(TRUE, FALSE, files, filename, "embed_raised", c2))
        ELSE IF items.raised
        THEN early(Run(TRUE, FALSE, files, filename, "attach_raised", c3))
        ELSE [pc |-> "upsert", filename |-> filename, calls |-> c4]

\* success = self.vector_store.upsert_items(chunks): the answer of the index,
\* and whether the filename was in the registry when it came.
Upserted(files, filename, calls, upsert) ==
    [pc |-> "register", filename |-> filename, calls |-> calls,
     upsert |-> upsert, registeredAtUpsert |-> filename \in files]

\* if success: self.processed_files.add(filename); return True / else: return
\* False / except: return False -- on the registry as it is now.
Registered(files, caller) ==
    ExceptReturnFalse(Store(files, caller.filename, caller.calls, caller.upsert))

QueryApology == "I'm sorry, I encountered an error while processing your query."

\* Variant: a match exactly at the threshold is dropped.
FilterStrict(results, threshold) ==
    SelectSeq(results, LAMBDA r : r.score > threshold)

\* [r for r in results if r["score"] >= config.similarity_threshold]
FilterByThreshold(results, threshold) ==
    SelectSeq(results, LAMBDA r : r.score >= threshold)

\* "\n\n".join(f"[Document: {r['source']}]\n{r['text']}" for r in filtered_results)
JoinContext(filtered_results) ==
    [i \in 1..Len(filtered_results) |->
       <<filtered_results[i].source, filtered_results[i].text>>]

\* What one run of query did: what the index and the generative model
\* answered, and the outcome (the returned record, or an exception).
QueryRun(found, generation, result) ==
    [found |-> found, generation |-> generation, result |-> result]

\* response = self.llm.generate_response(...); return {...}
Respond(found, filtered_results, generation) ==
    LET context == IF filtered_results # <<>> THEN JoinContext(filtered_results)
                   ELSE <<>>
        response == generate_response(context, generation)
    IN  IF response.raised THEN QueryRun(found, generation, Raise)
        ELSE QueryRun(found, generation,
                      Return([response |-> response.value,
                              context |-> filtered_results,
                              has_context |-> filtered_results # <<>>,
                              processing_time |-> "elapsed"]))

\* Variant: an empty result list is taken for a failure of the index.
RetrieveEmptyIsError(threshold, found) ==
    IF found.raised \/ found.value = <<>>
    THEN {QueryRun(found, "not called", Raise)}
    ELSE {Respond(found, FilterByThreshold(found.value, threshold), generation) :
            generation \in GenerationOutcomes}

\* results = self.vector_store.query(...); filtered_results = [...]
Retrieve(threshold, found) ==
    IF found.raised
    THEN {QueryRun(found, "not called", Raise)}
    ELSE {Respond(found, FilterByThreshold(found.value, threshold), generation) :
            generation \in GenerationOutcomes}

\* A run together with the condition of the index it met.
Observed(index, run) ==
    [index |-> index, found |-> run.found, generation |-> run.generation,
     result |-> run.result]

\* The body of the try block of query.
query_try(query_text, threshold, top_k) ==
    LET query_embedding == embed_text(query_text)
    IN  IF query_embedding.raised
        THEN {Observed("not asked", QueryRun(Raise, "not called", Raise))}
        ELSE UNION {{Observed(answer.index, run) :
                        run \in Retrieve(threshold, answer.found)} :
                    answer \in IndexAnswers(top_k)}

\* Variant: no except clause, the exception reaches the caller.
QueryExceptReraise(run) == run

\* except Exception as e: the error record
QueryExcept(run) ==
    IF run.result.raised
    THEN [run EXCEPT !.result =
            Return([response |-> QueryApology, context |-> <<>>,
                    has_context |-> FALSE, error |-> "str(e)"])]
    ELSE run

query(query_text, threshold, top_k) ==
    {QueryExcept(run) : run \in query_try(query_text, threshold, top_k)}

\* dict.get(key, default)
Get(d, key, default) == IF key \in DOMAIN d THEN d[key] ELSE default

EmptyDict == [k \in {} |-> 0]

get_stats(files, vector_stats) ==
    IF vector_stats.raised
    THEN Return([error |-> "str(e)"])
    ELSE Return([processed_files |-> files,
                 file_count |-> Cardinality(files),
                 vector_count |->
                     Get(Get(Get(vector_stats.value, "namespaces", EmptyDict),
                             Namespace, EmptyDict), "vector_count", 0),
                 index_fullness |-> Get(vector_stats.value, "index_fullness", 0),
                 vector_stats |-> vector_stats.value])

----------------------------------------------------------------------------
(* Initial state: RagConfig defaults and RAGEngine.__init__ *)

Init ==
    /\ processed_files = {}
    /\ similarity_threshold = DefaultThreshold
    /\ retrieval_top_k = DefaultTopK
    /\ last = [op |-> "init"]
    /\ doc = [f \in Names |-> "NotProcessed"]
    /\ upsertOk = {}
    /\ returnedTrue = {}
    /\ inflight = [t \in Callers |-> Idle]

engineVars == <<processed_files, similarity_threshold, retrieval_top_k, doc,
                upsertOk, returnedTrue, inflight>>

----------------------------------------------------------------------------
(* The public API of the orchestrator, called one call at a time *)

\* How the latest ingest of a filename ended, for the history variable doc.
Ended(run, before) ==
    IF ~run.raised /\ run.ret THEN "Processed"
    ELSE IF run.filename \in before THEN "FailedAfterProcessed"
    ELSE "Failed"

Ingest ==
    \E pdf_path \in Paths, exists \in BOOLEAN :
    \E run \in process_pdf(processed_files, pdf_path, exists) :
       /\ processed_files' = run.files
       /\ last' = [op |-> "ingest", pdf_path |-> pdf_path, exists |-> exists,
                   before |-> processed_files, trueBefore |-> returnedTrue,
                   docBefore |-> doc[basename(pdf_path)], run |-> run]
       /\ doc' = [doc EXCEPT ![basename(pdf_path)] = Ended(run, processed_files)]
       /\ upsertOk' = IF run.upsertSaid = "success"
                      THEN upsertOk \cup {basename(pdf_path)} ELSE upsertOk
       /\ returnedTrue' = IF ~run.raised /\ run.ret
                          THEN returnedTrue \cup {basename(pdf_path)}
                          ELSE returnedTrue
       /\ UNCHANGED <<similarity_threshold, retrieval_top_k, inflight>>

QueryTexts == {[chars |-> 1, provider |-> "vec"],
               [chars |-> MaxTextChars + 1, provider |-> "fail"]}

Query ==
    /\ \E run \in UNION {query(query_text, similarity_threshold, retrieval_top_k) :
                           query_text \in QueryTexts} :
          last' = [op |-> "query", run |-> run]
    /\ UNCHANGED engineVars

Stats ==
    /\ \E vector_stats \in StatsOutcomes :
          last' = [op |-> "stats", result |-> get_stats(processed_files, vector_stats)]
    /\ UNCHANGED engineVars

\* app.py: the settings sliders write the shared configuration.
Thresholds == {DefaultThreshold, 19}
TopKs == {1, DefaultTopK}

SetThreshold ==
    /\ \E t \in Thresholds : similarity_threshold' = t
    /\ last' = [op |-> "settings"]
    /\ UNCHANGED <<processed_files, retrieval_top_k, doc, upsertOk, returnedTrue,
                   inflight>>

SetTopK ==
    /\ \E k \in TopKs : retrieval_top_k' = k
    /\ last' = [op |-> "settings"]
    /\ UNCHANGED <<processed_files, similarity_threshold, doc, upsertOk,
                   returnedTrue, inflight>>

Next == Ingest \/ Query \/ Stats \/ SetThreshold \/ SetTopK

Spec == Init /\ [][Next]_vars

----------------------------------------------------------------------------
(* Direct calls on the embedding client, one call per behaviour: the       *)
(* initial state holds the arguments, the step applies the function.       *)

BatchSizes == (1..MaxBatchSize) \cup {DefaultBatchSize}

InitEmbed ==
    /\ processed_files = {}
    /\ similarity_threshold = DefaultThreshold
    /\ retrieval_top_k = DefaultTopK
    /\ \E texts \in SeqsUpTo(Texts, MaxTexts), batch_size \in BatchSizes :
          last = [op |-> "args", texts |-> texts, batch_size |-> batch_size]
    /\ doc = [f \in Names |-> "NotProcessed"]
    /\ upsertOk = {}
    /\ returnedTrue = {}
    /\ inflight = [t \in Callers |-> Idle]

EmbedText ==
    /\ last.op = "args"
    /\ Len(last.texts) = 1
    /\ last' = [op |-> "embed_text", text |-> last.texts[1],
                result |-> embed_text(last.texts[1])]
    /\ UNCHANGED engineVars

EmbedBatch ==
    /\ last.op = "args"
    /\ last' = [op |-> "embed_batch", texts |-> last.texts,
                batch_size |-> last.batch_size,
                result |-> embed_batch(last.texts, last.batch_size)]
    /\ UNCHANGED engineVars

NextEmbed == EmbedText \/ EmbedBatch

SpecEmbed == InitEmbed /\ [][NextEmbed]_vars

----------------------------------------------------------------------------
(* Callers running process_pdf at the same time on one engine: nothing in *)
(* the code orders their steps.  The configuration and the history of the *)
(* one-call-at-a-time API play no part here and stay as they are.         *)

sequentialVars == <<similarity_threshold, retrieval_top_k, last, doc, upsertOk,
                    returnedTrue>>

Enter(t) ==
    /\ inflight[t].pc = "idle"
    /\ \E pdf_path \in Paths, exists \in BOOLEAN :
          inflight' = [inflight EXCEPT ![t] = Entered(processed_files, pdf_path, exists)]
    /\ UNCHANGED <<processed_files, sequentialVars>>

CheckRegistry(t) ==
    /\ inflight[t].pc = "check"
    /\ inflight' = [inflight EXCEPT ![t] = Checked(processed_files, @.pdf_path)]
    /\ UNCHANGED <<processed_files, sequentialVars>>

Prepare(t) ==
    /\ inflight[t].pc = "prepare"
    /\ \E extraction \in ExtractionOutcomes :
          inflight' = [inflight EXCEPT ![t] =
                         Prepared(processed_files, @.pdf_path, @.filename, extraction)]
    /\ UNCHANGED <<processed_files, sequentialVars>>

Upsert(t) ==
    /\ inflight[t].pc = "upsert"
    /\ \E upsert \in UpsertOutcomes :
          inflight' = [inflight EXCEPT ![t] =
                         Upserted(processed_files, @.filename, @.calls, upsert)]
    /\ UNCHANGED <<processed_files, sequentialVars>>

Register(t) ==
    /\ inflight[t].pc = "register"
    /\ \E run \in {Registered(processed_files, inflight[t])} :
          /\ processed_files' = run.files
          /\ inflight' = [inflight EXCEPT ![t] =
                [registeredAtUpsert |-> inflight[t].registeredAtUpsert]
                    @@ Returned(run)]
    /\ UNCHANGED sequentialVars

\* The caller takes the result; it may call again.
Leave(t) ==
    /\ inflight[t].pc = "done"
    /\ inflight' = [inflight EXCEPT ![t] = Idle]
    /\ UNCHANGED <<processed_files, sequentialVars>>

NextConc ==
    \E t \in Callers :
        Enter(t) \/ CheckRegistry(t) \/ Prepare(t) \/ Upsert(t) \/ Register(t)
            \/ Leave(t)

SpecConc == Init /\ [][NextConc]_vars

----------------------------------------------------------------------------
(* Claims about ingest (process_pdf) *)

IngestedName == basename(last.pdf_path)

NoCollaboratorInvoked ==
    /\ last.run.extractCalls = 0
    /\ last.run.embedCalls = 0
    /\ last.run.upsertCalls = 0

ShortCircuited ==
    /\ ~last.run.raised
    /\ last.run.ret = TRUE
    /\ processed_files = last.before
    /\ Cardinality(processed_files) = Cardinality(last.before)
    /\ NoCollaboratorInvoked

(* C1 as stated: once an ingest of a filename has returned true, every     *)
(* later ingest of that filename returns true, leaves the registry and     *)
(* file_count unchanged and invokes neither the extractor, the embedding   *)
(* provider nor the upsert.                                                *)
C1_Original ==
    (last.op = "ingest" /\ IngestedName \in last.trueBefore) => ShortCircuited

(* C1 amended: the same, for every later ingest whose path exists at the   *)
(* time of the call (the existence check comes before the registry check). *)
C1_ProcessedIsIdempotent ==
    (last.op = "ingest" /\ IngestedName \in last.trueBefore /\ last.exists)
        => ShortCircuited

C1_Witness ==
    /\ last.op = "ingest"
    /\ last.pdf_path = <<"b", "x.pdf">>
    /\ last.exists
    /\ "x.pdf" \in last.trueBefore
    /\ last.before = {"x.pdf", "y.pdf"}
    /\ last.run.ret = TRUE

FailureStages ==
    {"empty", "upsert_failed", "extract_raised", "embed_raised", "attach_raised",
     "upsert_raised"}

(* C2: when ingest fails because extraction yields no chunks, because the  *)
(* upsert reports failure, or because a collaborator raises, it returns    *)
(* false without raising and the registry is exactly what it was before    *)
(* the call (a filename absent before is absent after).                    *)
C2_FailureLeavesRegistry ==
    (last.op = "ingest" /\ last.run.stage \in FailureStages) =>
        /\ ~last.run.raised
        /\ last.run.ret = FALSE
        /\ processed_files = last.before
        /\ IngestedName \notin last.before => IngestedName \notin processed_files

C2_Witness ==
    /\ last.op = "ingest"
    /\ last.run.stage = "upsert_raised"
    /\ last.before = {"y.pdf"}
    /\ IngestedName = "x.pdf"
    /\ last.run.ret = FALSE

(* C3: ingest of a path that does not exist returns false with no side     *)
(* effects: no extractor, embedding or upsert call, registry unchanged.    *)
C3_MissingFileNoEffects ==
    (last.op = "ingest" /\ ~last.exists) =>
        /\ ~last.run.raised
        /\ last.run.ret = FALSE
        /\ NoCollaboratorInvoked
        /\ processed_files = last.before

C3_Witness ==
    /\ last.op = "ingest"
    /\ ~last.exists
    /\ last.before # {}
    /\ IngestedName \notin last.before
    /\ last.run.ret = FALSE

(* C4: the registry starts empty, never loses an element, and holds a      *)
(* filename only if an earlier ingest of that filename completed an upsert *)
(* that reported success, whatever ingest, answer and stats calls are made.*)
C4_RegistryGrowsFromUpserts ==
    /\ processed_files = {}
    /\ [][processed_files \subseteq processed_files']_vars
    /\ [](processed_files \subseteq upsertOk)

C4_Witness ==
    /\ processed_files = Names
    /\ last.op = "stats"
    /\ "file_count" \in DOMAIN last.result.value
    /\ last.result.value.file_count = 2

\* The whole pipeline ran, as far as its collaborators let it.
PipelineRan ==
    /\ last.run.extractCalls = 1
    /\ last.run.nChunks > 0 =>
         /\ last.run.embedCalls = last.run.nChunks
         /\ last.run.upsertCalls = 1
         /\ last.run.upserted =
              [i \in 1..last.run.nChunks |-> <<IngestedName, i - 1>>]
    /\ last.run.upsertSaid = "success" =>
         /\ last.run.ret = TRUE
         /\ IngestedName \in processed_files

(* C5 as stated: after a failed ingest of a filename, the next ingest of   *)
(* that filename re-runs the whole pipeline (extraction, embedding and     *)
(* upsert of every chunk) and, if the upsert succeeds, returns true and    *)
(* adds the filename to the registry.                                      *)
C5_Original ==
    (/\ last.op = "ingest"
     /\ last.docBefore \in {"Failed", "FailedAfterProcessed"}
     /\ last.exists) => PipelineRan

(* C5 amended: the same for a failed ingest of a filename that was not in  *)
(* the registry: the failure leaves the filename out of the registry, and  *)
(* the next ingest of it starts over at the existence check.               *)
C5_FailedLeavesNoMemory ==
    (last.op = "ingest" /\ last.docBefore = "Failed") =>
        /\ IngestedName \notin last.before
        /\ ~last.exists => last.run.stage = "missing"
        /\ last.exists => PipelineRan

C5_Witness ==
    /\ last.op = "ingest"
    /\ last.docBefore = "Failed"
    /\ last.exists
    /\ last.run.nChunks = 2
    /\ last.run.stage = "stored"
    /\ IngestedName \in processed_files

----------------------------------------------------------------------------
(* Claims about answer (query) *)

Found == last.run.found.value
Answer == last.run.result.value

\* Positions of the index's matches that meet the threshold, and the k-th.
Kept == {i \in DOMAIN Found : Found[i].score >= similarity_threshold}
KthKept(k) == CHOOSE i \in Kept : Cardinality({j \in Kept : j <= i}) = k

(* C6: for every answer call that completes without an exception, the      *)
(* returned context is exactly the subsequence of the index's matches      *)
(* whose score is >= the threshold configured at that call, in the index's *)
(* order, and has_context is true iff that subsequence is non-empty.       *)
C6_ContextIsThresholdFilter ==
    (last.op = "query" /\ ~last.run.result.raised /\ "error" \notin DOMAIN Answer) =>
        /\ Len(Answer.context) = Cardinality(Kept)
        /\ \A k \in 1..Len(Answer.context) : Answer.context[k] = Found[KthKept(k)]
        /\ Answer.has_context <=> (Kept # {})

C6_Witness ==
    /\ last.op = "query"
    /\ ~last.run.found.raised
    /\ [i \in 1..Len(Found) |-> Found[i].score] = <<18, 16, 12>>
    /\ similarity_threshold = 15
    /\ Len(Answer.context) = 2
    /\ Answer.has_context

(* C7: answer never raises to its caller: when a step of the flow raises,  *)
(* it returns the fixed apology as response, an empty context,             *)
(* has_context false, and an error field.                                  *)
C7_QueryNeverRaises ==
    last.op = "query" =>
        /\ ~last.run.result.raised
        /\ last.run.found.raised =>
             /\ Answer.response =
                  "I'm sorry, I encountered an error while processing your query."
             /\ Answer.context = <<>>
             /\ Answer.has_context = FALSE
             /\ "error" \in DOMAIN Answer

C7_Witness ==
    /\ last.op = "query"
    /\ last.run.found.raised
    /\ ~last.run.result.raised
    /\ "error" \in DOMAIN Answer

(* C8: every record answer returns, on every path including the error     *)
(* path, has the four fields response, context, has_context and            *)
(* processing_time.                                                        *)
C8_AllFourFields ==
    (last.op = "query" /\ ~last.run.result.raised) =>
        {"response", "context", "has_context", "processing_time"}
            \subseteq DOMAIN Answer

(* C11: a failure of the generative model is never fatal:                *)
(* generate_response returns its fixed apology instead of raising, with    *)
(* and without context, so an answer call whose only failure is generation *)
(* returns normally with that apology as response, context and has_context *)
(* decided by the threshold filter, and no error field.                    *)
C11_GenerationFailureNotFatal ==
    (last.op = "query" /\ ~last.run.found.raised /\ last.run.generation = "fail") =>
        /\ ~last.run.result.raised
        /\ "error" \notin DOMAIN Answer
        /\ Answer.response =
             "I'm sorry, I encountered an error while generating a response. Please try again."
        /\ Len(Answer.context) = Cardinality(Kept)
        /\ \A k \in 1..Len(Answer.context) : Answer.context[k] = Found[KthKept(k)]
        /\ Answer.has_context <=> (Kept # {})
        /\ "processing_time" \in DOMAIN Answer

C11_Witness ==
    /\ last.op = "query"
    /\ ~last.run.found.raised
    /\ last.run.generation = "fail"
    /\ Len(Found) = 2
    /\ Answer.has_context
    /\ Len(Answer.context) = 1
    /\ "error" \notin DOMAIN Answer

(* C12: a query that meets an unavailable vector index is answered as a   *)
(* query with zero results, not as an error: the generator is called       *)
(* without context, and the record has has_context false, an empty         *)
(* context, the generator's response and no error field.                   *)
C12_IndexUnavailableIsNoContext ==
    (last.op = "query" /\ last.run.index = "unavailable") =>
        /\ ~last.run.result.raised
        /\ last.run.generation \in {"ok", "fail"}
        /\ "error" \notin DOMAIN Answer
        /\ Answer.context = <<>>
        /\ Answer.has_context = FALSE
        /\ Answer.response # "I'm sorry, I encountered an error while processing your query."
        /\ (last.run.generation = "ok") =>
              Answer.response = "answer to standard prompt"
        /\ (last.run.generation = "fail") =>
              Answer.response =
                "I'm sorry, I encountered an error while generating a response. Please try again."

C12_Witness ==
    /\ last.op = "query"
    /\ last.run.index = "unavailable"
    /\ last.run.generation = "ok"
    /\ Answer.response = "answer to standard prompt"
    /\ ~Answer.has_context

(* C13: two process_pdf calls for one filename running at the same time   *)
(* are not kept apart.  Whenever both have returned and the upsert of each *)
(* reported success, both returned True and the registry holds the         *)
(* filename, once.  (The witness is the interleaving in which both passed  *)
(* the registry check, embedded and upserted before either added the       *)
(* filename.)                                                              *)
BothUpsertsSucceeded(t, u) ==
    /\ t # u
    /\ inflight[t].pc = "done"
    /\ inflight[u].pc = "done"
    /\ inflight[t].filename = inflight[u].filename
    /\ inflight[t].upsertSaid = "success"
    /\ inflight[u].upsertSaid = "success"

C13_RacingIngestsBothTrue ==
    \A t \in Callers, u \in Callers :
        BothUpsertsSucceeded(t, u) =>
            /\ ~inflight[t].raised /\ inflight[t].ret = TRUE
            /\ ~inflight[u].raised /\ inflight[u].ret = TRUE
            /\ inflight[t].filename \in processed_files
            /\ Cardinality({f \in processed_files : f = inflight[t].filename}) = 1

C13_Witness ==
    /\ BothUpsertsSucceeded("caller1", "caller2")
    /\ \A t \in Callers :
          /\ inflight[t].embedCalls > 0
          /\ inflight[t].upsertCalls = 1
          /\ ~inflight[t].registeredAtUpsert
          /\ inflight[t].ret = TRUE
    /\ processed_files = {inflight["caller1"].filename}

----------------------------------------------------------------------------
(* C9: embed_text never raises and never returns the all-zero vector: for  *)
(* every text and every provider outcome it returns a vector of dimension  *)
(* 768 with a non-zero component, and on provider failure exactly the      *)
(* fallback vector (first component epsilon, all others zero).             *)
C9_EmbedTextNeverZero ==
    last.op = "embed_text" =>
        /\ ~last.result.raised
        /\ Dim(last.result.value) = 768
        /\ \E i \in 1..Dim(last.result.value) : At(last.result.value, i) # 0
        /\ DOMAIN last.result.value.nz \subseteq 1..Dim(last.result.value)
        /\ last.text.provider = "fail" =>
             /\ At(last.result.value, 1) = Epsilon
             /\ \A i \in 2..Dim(last.result.value) : At(last.result.value, i) = 0

C9_Witness ==
    /\ last.op = "embed_text"
    /\ last.text.provider = "fail"
    /\ last.text.chars > MaxTextChars
    /\ ~last.result.raised

(* C10: embed_batch returns one vector per input text, in input order, for *)
(* every input length and batch size >= 1, also when the provider fails on *)
(* some texts: the i-th output is embed_text of the i-th input.            *)
C10_EmbedBatchOnePerText ==
    last.op = "embed_batch" =>
        /\ ~last.result.raised
        /\ Len(last.result.value) = Len(last.texts)
        /\ \A i \in 1..Len(last.texts) :
             last.result.value[i] = embed_text(last.texts[i]).value

C10_Witness ==
    /\ last.op = "embed_batch"
    /\ Len(last.texts) = 3
    /\ last.batch_size = 2
    /\ last.texts[1].provider = "vec"
    /\ last.texts[2].provider = "fail"
    /\ last.texts[3].provider = "zero"
    /\ Len(last.result.value) = 3

====
